---------------------------- MODULE Spec2Model ----------------------------
(***************************************************************************)
(* Subtitle translation pipeline and subtitle format codecs of TransVision *)
(* (core/translate_subtitle.py, core/subtitle_parser.py).                  *)
(*                                                                         *)
(* Text is a sequence of one-token strings ("a", " ", "\n", ...); block    *)
(* positions are 0-based as in the code, TLA+ sequences are 1-based, so    *)
(* chunks[i + 1] is the code's chunks[i].                                  *)
(***************************************************************************)
EXTENDS Integers, Sequences, FiniteSets, TLC

VARIABLES
    pc,                    \* position of the main thread in translate_subtitle_file
    job,                   \* the arguments of the run and the input file
    subtitles,             \* translate_subtitle_file: subtitles (parse result)
    metadata,              \* translate_subtitle_file: metadata (parse result)
    chunks,                \* translate_subtitles: chunks
    max_workers,           \* translate_subtitles: max_workers after defaulting
    futures,               \* translate_subtitles: futures, as the state of each one
    calls,                 \* arguments each translate_lines call received
    attempts,              \* how many times translate_lines was called for each block
    reply,                 \* what the backend answered to each call
    results,               \* translate_subtitles: results, in collection order
    translated_subtitles,  \* translate_subtitles: return value
    yielded,               \* the blocks whose futures as_completed has handed out, in order
    output_files,          \* the files written so far, in order
    error,                 \* the exception that ended the run, if any
    file_text,             \* codec runs: the text of the file read first
    written_text,          \* codec runs: the text written back
    reparsed,              \* codec runs: the records read from the text written back
    time_in,               \* time conversions: the time converted
    time_mid,              \* time conversions: its form in the other format
    time_out               \* time conversions: the form converted back

pipeVars == <<pc, job, subtitles, metadata, chunks, max_workers, futures, calls, attempts,
              reply, results, yielded, translated_subtitles, output_files, error>>

codecVars == <<file_text, written_text, reparsed>>

timeVars == <<time_in, time_mid, time_out>>

vars == <<pipeVars, codecVars, timeVars>>

-----------------------------------------------------------------------------
(* Bounds of the model *)

MaxLen == 3
MaxChunk == 3
MaxExtra == 1

-----------------------------------------------------------------------------
(* Python values and string helpers *)

NL == "\n"
SP == " "

None == [tag |-> "None"]
Some(v) == [tag |-> "Some", val |-> v]

Min(a, b) == IF a < b THEN a ELSE b
Max(a, b) == IF a > b THEN a ELSE b

\* s[a:b] for 0 <= a, any b >= 0
Slice(s, a, b) == SubSeq(s, a + 1, Min(b, Len(s)))

\* s[-n:]
LastN(s, n) == SubSeq(s, Max(1, Len(s) - n + 1), Len(s))

\* s[:n]
FirstN(s, n) == SubSeq(s, 1, Min(n, Len(s)))

\* str.replace(old, new) for one-token old and new
Replace(s, old, new) == [k \in 1..Len(s) |-> IF s[k] = old THEN new ELSE s[k]]

RECURSIVE Join(_, _)
\* sep.join(parts)
Join(parts, sep) ==
    IF Len(parts) = 0 THEN <<>>
    ELSE IF Len(parts) = 1 THEN parts[1]
    ELSE parts[1] \o <<sep>> \o Join(Tail(parts), sep)

RECURSIVE Split(_, _)
\* s.split(sep): always at least one part
Split(s, sep) ==
    IF \A k \in 1..Len(s) : s[k] # sep THEN <<s>>
    ELSE LET p == CHOOSE k \in 1..Len(s) :
                      s[k] = sep /\ \A q \in 1..(k - 1) : s[q] # sep
         IN  <<SubSeq(s, 1, p - 1)>> \o Split(SubSeq(s, p + 1, Len(s)), sep)

IsSpace(c) == c \in {SP, NL}

RECURSIVE LStrip(_)
LStrip(s) == IF Len(s) > 0 /\ IsSpace(s[1]) THEN LStrip(Tail(s)) ELSE s

RECURSIVE RStrip(_)
RStrip(s) ==
    IF Len(s) > 0 /\ IsSpace(s[Len(s)]) THEN RStrip(SubSeq(s, 1, Len(s) - 1)) ELSE s

\* str.strip()
Strip(s) == RStrip(LStrip(s))

-----------------------------------------------------------------------------
(* Paths: a path is a sequence of tokens, "/" separating its components and  *)
(* an extension being one token that starts with a dot (".srt", ".ASS").     *)

ExtTokens == {".srt", ".SRT", ".ass", ".ASS", ".ssa", ".vtt", ".txt"}

\* str.lower() on the tokens of the paths and of the sample files
Lower(t) ==
    CASE t = ".SRT" -> ".srt"
      [] t = ".ASS" -> ".ass"
      [] t = "[Script Info]" -> "[script info]"
      [] t = "[V4+ Styles]" -> "[v4+ styles]"
      [] t = "[Events]" -> "[events]"
      [] t = "Layer" -> "layer"
      [] t = "Start" -> "start"
      [] t = "End" -> "end"
      [] t = "Style" -> "style"
      [] t = "Name" -> "name"
      [] t = "MarginL" -> "marginl"
      [] t = "MarginR" -> "marginr"
      [] t = "MarginV" -> "marginv"
      [] t = "Effect" -> "effect"
      [] t = "Text" -> "text"
      [] OTHER -> t

\* position of the first token of the final path component
NameStart(p) ==
    IF \E k \in 1..Len(p) : p[k] = "/"
    THEN 1 + CHOOSE k \in 1..Len(p) : p[k] = "/" /\ \A q \in (k + 1)..Len(p) : p[q] # "/"
    ELSE 1

\* the final component has an extension: its last token is one, and not its first
HasExt(p) == Len(p) > NameStart(p) /\ p[Len(p)] \in ExtTokens

\* pathlib.Path(p).suffix
Suffix(p) == IF HasExt(p) THEN p[Len(p)] ELSE ""

\* os.path.splitext(p)
SplitExt(p) ==
    IF HasExt(p) THEN <<SubSeq(p, 1, Len(p) - 1), p[Len(p)]>> ELSE <<p, "">>

\* os.path.dirname(p)
DirName(p) == SubSeq(p, 1, NameStart(p) - 2)

\* os.path.basename(p)
BaseName(p) == SubSeq(p, NameStart(p), Len(p))

\* os.path.join(d, name)
PathJoin(d, name) == d \o <<"/">> \o name

\* str.replace("_translated", "") on a file name
DropTranslated(name) == SelectSeq(name, LAMBDA t : t # "_translated")

detect_subtitle_format(file_path) ==
    LET ext == Lower(Suffix(file_path))
    IN  IF ext = ".srt" THEN "srt"
        ELSE IF ext \in {".ass", ".ssa"} THEN "ass"
        ELSE IF ext = ".vtt" THEN "vtt"
        ELSE "unknown"

-----------------------------------------------------------------------------
(* Caption records and the input files of a run *)

Subtitle(index, start, end, text, style, name, margin_l, margin_r, margin_v, effect) ==
    [index |-> index, start |-> start, end |-> end, text |-> text,
     style |-> style, name |-> name, margin_l |-> margin_l,
     margin_r |-> margin_r, margin_v |-> margin_v, effect |-> effect]

ASSMetadata(script_info, styles, events_header) ==
    [script_info |-> script_info, styles |-> styles, events_header |-> events_header]

\* the text of the k-th caption of an input file: one line, two lines, or a
\* line with a leading blank
CaptionText(k) ==
    CASE k % 4 = 1 -> <<"a", ToString(k)>>
      [] k % 4 = 2 -> <<"b", NL, ToString(k)>>
      [] k % 4 = 3 -> <<SP, "c", ToString(k)>>
      [] OTHER -> <<"d", SP, ToString(k)>>

\* canonical time hh:mm:ss,mmm as <<h, m, s, ms>>
CaptionStart(k) == <<0, 0, k, 0>>
CaptionEnd(k) == <<0, 0, k, 900>>

\* what the codec of format fmt parses from the input file with len captions:
\* SRT keeps the file's own numbers (here 10 + k), ASS carries styling fields
InputTrack(fmt, len) ==
    [k \in 1..len |->
        IF fmt = "ass"
        THEN Subtitle(k, CaptionStart(k), CaptionEnd(k), CaptionText(k),
                      "Sign", "bob", k, 0, 5, "fx")
        ELSE Subtitle(IF fmt = "srt" THEN 10 + k ELSE k, CaptionStart(k),
                      CaptionEnd(k), CaptionText(k), "Default", "", 0, 0, 0, "")]

InputMetadata ==
    ASSMetadata(<<"[Script Info]", "PlayResX: 640">>,
                <<"[V4+ Styles]", "Style: Sign">>,
                "Format: Layer, Start, End, Style, Name, MarginL, MarginR, MarginV, Effect, Text")

\* parse_subtitle reading an unknown format as SRT, as write_subtitle writes it
parse_subtitle_srt_fallback(file_path, len) ==
    LET fmt == detect_subtitle_format(file_path)
    IN  IF fmt = "ass" THEN <<"ok", InputTrack("ass", len), InputMetadata>>
        ELSE IF fmt = "vtt" THEN <<"ok", InputTrack("vtt", len), None>>
        ELSE <<"ok", InputTrack("srt", len), None>>

\* parse_subtitle: <<"ok", subtitles, metadata>> or <<"raise", error>>
parse_subtitle(file_path, len) ==
    LET fmt == detect_subtitle_format(file_path)
    IN  IF fmt = "srt" THEN <<"ok", InputTrack("srt", len), None>>
        ELSE IF fmt = "ass" THEN <<"ok", InputTrack("ass", len), InputMetadata>>
        ELSE IF fmt = "vtt" THEN <<"ok", InputTrack("vtt", len), None>>
        ELSE <<"raise", [type |-> "ValueError", path |-> file_path]>>

\* write_subtitle: the codec that writes, and what it is given
write_subtitle(subs, output_path, meta) ==
    LET fmt == detect_subtitle_format(output_path)
    IN  IF fmt = "srt" THEN [codec |-> "srt", path |-> output_path, subtitles |-> subs, metadata |-> None]
        ELSE IF fmt = "ass" THEN [codec |-> "ass", path |-> output_path, subtitles |-> subs, metadata |-> meta]
        ELSE IF fmt = "vtt" THEN [codec |-> "vtt", path |-> output_path, subtitles |-> subs, metadata |-> None]
        ELSE [codec |-> "srt", path |-> output_path, subtitles |-> subs, metadata |-> None]

-----------------------------------------------------------------------------
(* Chunker and the per-block backend call *)

RECURSIVE ChunksFromShortSlice(_, _, _)
\* ChunksFrom cutting each block one caption short
ChunksFromShortSlice(subs, chunk_size, i) ==
    IF i >= Len(subs) THEN <<>>
    ELSE <<Slice(subs, i, i + chunk_size - 1)>>
         \o ChunksFromShortSlice(subs, chunk_size, i + chunk_size)

RECURSIVE ChunksFrom(_, _, _)
\* the loop "for i in range(i, len(subtitles), chunk_size)" of the chunker
ChunksFrom(subs, chunk_size, i) ==
    IF i >= Len(subs) THEN <<>>
    ELSE <<Slice(subs, i, i + chunk_size)>> \o ChunksFrom(subs, chunk_size, i + chunk_size)

split_subtitles_into_chunks(subs, chunk_size) == ChunksFrom(subs, chunk_size, 0)

Texts(chunk) == [k \in 1..Len(chunk) |-> chunk[k].text]

\* PreviousContent reading the block itself instead of its predecessor
PreviousContentOwnBlock(all_chunks, chunk_index) ==
    IF chunk_index > 0
    THEN Some(Texts(LastN(all_chunks[chunk_index + 1], 3)))
    ELSE None

\* translate_chunk: the previous_content argument of the backend call
PreviousContent(all_chunks, chunk_index) ==
    IF chunk_index > 0
    THEN Some(Texts(LastN(all_chunks[chunk_index], 3)))
    ELSE None

\* translate_chunk: the after_content argument of the backend call
AfterContent(all_chunks, chunk_index) ==
    IF chunk_index < Len(all_chunks) - 1
    THEN Some(Texts(FirstN(all_chunks[chunk_index + 2], 2)))
    ELSE None

\* translate_chunk: the arguments of its translate_lines call
BackendCall(all_chunks, chunk_index, theme_prompt) ==
    LET chunk == all_chunks[chunk_index + 1]
    IN  [lines |-> Join([k \in 1..Len(chunk) |-> Replace(chunk[k].text, NL, SP)], NL),
         previous_content |-> PreviousContent(all_chunks, chunk_index),
         after_content |-> AfterContent(all_chunks, chunk_index),
         things_to_note_prompt |-> None,
         summary_prompt |-> theme_prompt,
         index |-> chunk_index]

\* translate_chunk: its return value, given the string the backend returned
ChunkResult(chunk_index, translation) == <<chunk_index, Split(translation, NL)>>

\* line j of the backend's answer for block i: padded with blanks, with an
\* inner blank, or blank altogether
BackendLine(i, j) ==
    CASE j % 3 = 1 -> <<SP, "T", ToString(i), ToString(j), SP>>
      [] j % 3 = 2 -> <<"T", ToString(i), SP, ToString(j)>>
      [] OTHER -> <<SP>>

\* the line counts the backend may answer with for a block of m captions:
\* one line, one fewer than asked, as many as asked, or more
ReplySizes(m) == {k \in 1..(m + MaxExtra) : k = 1 \/ k >= m - 1}

BackendLines(i, k) == [j \in 1..k |-> BackendLine(i, j)]

-----------------------------------------------------------------------------
(* Collecting and reassembling *)

RECURSIVE InsertByIndex(_, _)
InsertByIndex(sorted, r) ==
    IF Len(sorted) = 0 THEN <<r>>
    ELSE IF r[1] < sorted[1][1] THEN <<r>> \o sorted
    ELSE <<sorted[1]>> \o InsertByIndex(Tail(sorted), r)

RECURSIVE SortResults(_)
\* results.sort(key=lambda x: x[0]), a stable sort
SortResults(rs) ==
    IF Len(rs) = 0 THEN <<>>
    ELSE InsertByIndex(SortResults(SubSeq(rs, 1, Len(rs) - 1)), rs[Len(rs)])

\* TranslatedRecord leaving a caption without a backend line empty
TranslatedRecordEmptyTail(sub, i, translated_lines) ==
    Subtitle(sub.index, sub.start, sub.end,
             IF i < Len(translated_lines) THEN Strip(translated_lines[i + 1]) ELSE <<>>,
             sub.style, sub.name, sub.margin_l, sub.margin_r, sub.margin_v, sub.effect)

\* the record built for caption sub at offset i (0-based) of its block
TranslatedRecord(sub, i, translated_lines) ==
    Subtitle(sub.index, sub.start, sub.end,
             IF i < Len(translated_lines) THEN Strip(translated_lines[i + 1]) ELSE sub.text,
             sub.style, sub.name, sub.margin_l, sub.margin_r, sub.margin_v, sub.effect)

\* TranslateBlock building one record per backend line instead of per caption
TranslateBlockPerLine(chunk, translated_lines) ==
    [k \in 1..Len(translated_lines) |->
        TranslatedRecord(chunk[Min(k, Len(chunk))], k - 1, translated_lines)]

TranslateBlock(chunk, translated_lines) ==
    [k \in 1..Len(chunk) |-> TranslatedRecord(chunk[k], k - 1, translated_lines)]

RECURSIVE Reassemble(_, _)
\* the loop over the sorted results that builds translated_subtitles
Reassemble(all_chunks, rs) ==
    IF Len(rs) = 0 THEN <<>>
    ELSE TranslateBlock(all_chunks[rs[1][1] + 1], rs[1][2])
         \o Reassemble(all_chunks, Tail(rs))

\* one record of the bilingual artifacts
BilingualRecord(orig, text) ==
    Subtitle(orig.index, orig.start, orig.end, text, orig.style, orig.name,
             orig.margin_l, orig.margin_r, orig.margin_v, orig.effect)

\* zip(a, b): as long as the shorter
ZipLen(a, b) == Min(Len(a), Len(b))

bilingual_subtitles(orig, trans) ==
    [k \in 1..ZipLen(orig, trans) |->
        BilingualRecord(orig[k], orig[k].text \o <<NL>> \o trans[k].text)]

\* bilingual_reverse_subtitles stacking the texts as bilingual_subtitles does
bilingual_reverse_same_order(orig, trans) ==
    [k \in 1..ZipLen(orig, trans) |->
        BilingualRecord(orig[k], orig[k].text \o <<NL>> \o trans[k].text)]

bilingual_reverse_subtitles(orig, trans) ==
    [k \in 1..ZipLen(orig, trans) |->
        BilingualRecord(orig[k], trans[k].text \o <<NL>> \o orig[k].text)]

\* the paths of the artifacts, from output_path
ArtifactPath(output_path, suffix) ==
    LET base_ext == SplitExt(output_path)
        output_dir == IF DirName(output_path) = <<>> THEN <<".">> ELSE DirName(output_path)
        base_name == DropTranslated(BaseName(base_ext[1]))
    IN  PathJoin(output_dir, base_name \o <<suffix>>
                             \o (IF base_ext[2] = "" THEN <<>> ELSE <<base_ext[2]>>))

-----------------------------------------------------------------------------
(* The runs of translate_subtitle_file *)

DefaultWorkers == 3

InputPath(e) == <<"in", "/", "movie", e>>

OutputPath(e) == <<"out", "/", "movie", "_translated", e>>

\* input path, output path and output_bilingual of the runs
Routes ==
    {<<InputPath(".srt"), OutputPath(".srt"), TRUE>>,
     <<InputPath(".ass"), OutputPath(".ASS"), TRUE>>,
     <<InputPath(".vtt"), OutputPath(".vtt"), FALSE>>,
     <<InputPath(".srt"), OutputPath(".txt"), TRUE>>,
     <<InputPath(".ass"), <<"movie", ".srt">>, FALSE>>,
     <<InputPath(".txt"), OutputPath(".srt"), TRUE>>}

\* the lengths and chunk sizes of the runs: the small ones, and the 25 captions
\* in chunks of 10 of the end-to-end scenario
Sizes ==
    {<<len, n>> : len \in 0..MaxLen, n \in 1..MaxChunk} \cup {<<25, 10>>, <<DefaultWorkers + 1, 1>>}

\* the configured worker counts tried on a route, 0 for none configured: all
\* of them on the SRT route, none configured on the others
WorkerCounts(rt) == IF rt = <<InputPath(".srt"), OutputPath(".srt"), TRUE>> THEN 0..2 ELSE {0}

Jobs ==
    {j \in {[input_path |-> rt[1], output_path |-> rt[2], len |-> sz[1], chunk_size |-> sz[2],
             output_bilingual |-> rt[3], theme_prompt |-> None, cfg_max_workers |-> w] :
               rt \in Routes, sz \in Sizes, w \in 0..2} :
        j.cfg_max_workers \in WorkerCounts(<<j.input_path, j.output_path, j.output_bilingual>>)}

Blocks == 0..(Len(chunks) - 1)

Finished(i) == futures[i].state \in {"returned", "raised"}

Init ==
    /\ pc = "parse"
    /\ job \in Jobs
    /\ subtitles = <<>>
    /\ metadata = None
    /\ chunks = <<>>
    /\ max_workers = 0
    /\ futures = <<>>
    /\ calls = <<>>
    /\ attempts = <<>>
    /\ reply = <<>>
    /\ results = <<>>
    /\ yielded = <<>>
    /\ translated_subtitles = <<>>
    /\ output_files = <<>>
    /\ error = None
    /\ file_text = <<>>
    /\ written_text = <<>>
    /\ reparsed = <<>>
    /\ time_in = <<>>
    /\ time_mid = <<>>
    /\ time_out = <<>>

\* translate_subtitle_file: parse the input file
Parse ==
    /\ pc = "parse"
    /\ LET r == parse_subtitle(job.input_path, job.len)
       IN  IF r[1] = "ok"
           THEN /\ subtitles' = r[2]
                /\ metadata' = r[3]
                /\ pc' = "translate"
                /\ error' = error
           ELSE /\ error' = r[2]
                /\ pc' = "failed"
                /\ UNCHANGED <<subtitles, metadata>>
    /\ UNCHANGED <<job, attempts, chunks, max_workers, futures, calls, reply, results, yielded,
                   translated_subtitles, output_files>>
    /\ UNCHANGED <<codecVars, timeVars>>

\* max_workers = load_key("max_workers") or 3; a configured 0 stands for no
\* configured value
ConfiguredWorkers(cfg) == IF cfg = 0 THEN DefaultWorkers ELSE cfg

\* translate_subtitles up to the creation of the pool
StartTranslate ==
    /\ pc = "translate"
    /\ max_workers' = ConfiguredWorkers(job.cfg_max_workers)
    /\ chunks' = split_subtitles_into_chunks(subtitles, job.chunk_size)
    /\ futures' = [i \in 0..(Len(chunks') - 1) |-> [state |-> "none", result |-> None]]
    /\ calls' = [i \in 0..(Len(chunks') - 1) |-> None]
    /\ attempts' = [i \in 0..(Len(chunks') - 1) |-> 0]
    /\ reply' = [i \in 0..(Len(chunks') - 1) |-> None]
    /\ pc' = IF Len(chunks') = 0 THEN "collect" ELSE "submit"
    /\ UNCHANGED <<job, subtitles, metadata, results, yielded, translated_subtitles,
                   output_files, error>>
    /\ UNCHANGED <<codecVars, timeVars>>

\* executor.submit of the next block
Submit ==
    /\ pc = "submit"
    /\ LET i == CHOOSE j \in Blocks :
                    futures[j].state = "none" /\ \A q \in 0..(j - 1) : futures[q].state # "none"
       IN  /\ futures' = [futures EXCEPT ![i].state = "pending"]
           /\ pc' = IF i = Len(chunks) - 1 THEN "collect" ELSE "submit"
    /\ UNCHANGED <<job, attempts, subtitles, metadata, chunks, max_workers, calls, reply, results,
                   yielded, translated_subtitles, output_files, error>>
    /\ UNCHANGED <<codecVars, timeVars>>

Running == {q \in Blocks : futures[q].state = "running"}

\* a pool that starts a thread for every queued block
WorkerFreeUnbounded == TRUE

\* ThreadPoolExecutor(max_workers): at most max_workers threads take work
WorkerFree == Cardinality(Running) < max_workers

\* a free worker takes the oldest queued block and calls the backend
WorkerStart(i) ==
    /\ futures[i].state = "pending"
    /\ \A q \in 0..(i - 1) : futures[q].state # "pending"
    /\ WorkerFree
    /\ futures' = [futures EXCEPT ![i].state = "running"]
    /\ calls' = [calls EXCEPT ![i] = Some(BackendCall(chunks, i, job.theme_prompt))]
    /\ attempts' = [attempts EXCEPT ![i] = attempts[i] + 1]
    /\ UNCHANGED <<pc, job, subtitles, metadata, chunks, max_workers, reply, results,
                   yielded, translated_subtitles, output_files, error>>
    /\ UNCHANGED <<codecVars, timeVars>>

\* the backend answers block i with k lines; translate_chunk returns
WorkerReturn(i, k) ==
    /\ futures[i].state = "running"
    /\ k \in ReplySizes(Len(chunks[i + 1]))
    /\ reply' = [reply EXCEPT ![i] = Some(BackendLines(i, k))]
    /\ futures' = [futures EXCEPT ![i] =
                      [state |-> "returned",
                       result |-> ChunkResult(i, Join(BackendLines(i, k), NL))]]
    /\ UNCHANGED <<pc, job, attempts, subtitles, metadata, chunks, max_workers, calls, results,
                   yielded, translated_subtitles, output_files, error>>
    /\ UNCHANGED <<codecVars, timeVars>>

\* WorkerRaise queueing the failed block again
WorkerRaiseRetry(i) ==
    /\ futures[i].state = "running"
    /\ reply' = [reply EXCEPT ![i] = [tag |-> "Raise"]]
    /\ futures' = [futures EXCEPT ![i].state = "pending"]
    /\ UNCHANGED <<pc, job, attempts, subtitles, metadata, chunks, max_workers, calls, results,
                   yielded, translated_subtitles, output_files, error>>
    /\ UNCHANGED <<codecVars, timeVars>>

\* the backend call of block i raises
WorkerRaise(i) ==
    /\ futures[i].state = "running"
    /\ reply' = [reply EXCEPT ![i] = [tag |-> "Raise"]]
    /\ futures' = [futures EXCEPT ![i].state = "raised"]
    /\ UNCHANGED <<pc, job, attempts, subtitles, metadata, chunks, max_workers, calls, results,
                   yielded, translated_subtitles, output_files, error>>
    /\ UNCHANGED <<codecVars, timeVars>>

\* CollectStep swallowing the exception of a failed block
CollectStepSwallow(i) ==
    IF futures[i].state = "returned"
    THEN [results |-> Append(results, futures[i].result), pc |-> "collect", error |-> error]
    ELSE [results |-> Append(results, <<i, <<>>>>), pc |-> "collect", error |-> error]

\* what the main thread does with a future as_completed hands out
CollectStep(i) ==
    IF futures[i].state = "returned"
    THEN [results |-> Append(results, futures[i].result), pc |-> "collect", error |-> error]
    ELSE [results |-> results, pc |-> "shutdown",
          error |-> [type |-> "BackendError", block |-> i]]

\* as_completed hands out a finished future; its result is appended or its
\* exception leaves the loop
Collect(i) ==
    /\ pc = "collect"
    /\ \A q \in 1..Len(yielded) : yielded[q] # i
    /\ Finished(i)
    /\ yielded' = Append(yielded, i)
    /\ results' = CollectStep(i).results
    /\ pc' = CollectStep(i).pc
    /\ error' = CollectStep(i).error
    /\ UNCHANGED <<job, attempts, subtitles, metadata, chunks, max_workers, futures, calls, reply,
                   translated_subtitles, output_files>>
    /\ UNCHANGED <<codecVars, timeVars>>

\* the exception leaves the with block once every submitted block has ended
Shutdown ==
    /\ pc = "shutdown"
    /\ \A i \in Blocks : Finished(i)
    /\ pc' = "failed"
    /\ UNCHANGED <<job, attempts, subtitles, metadata, chunks, max_workers, futures, calls, reply,
                   results, yielded, translated_subtitles, output_files, error>>
    /\ UNCHANGED <<codecVars, timeVars>>

\* OrderResults keeping the completion order
OrderResultsUnsorted(rs) == rs

\* the order in which the collected results are reassembled
OrderResults(rs) == SortResults(rs)

\* the as_completed loop left after the first future
AllHandedOutFirst == Len(yielded) >= Min(1, Len(chunks))

\* the loop "for future in as_completed(futures)" ends when every future was
\* handed out
AllHandedOut == Len(yielded) = Len(chunks)

\* Finish writing the translations into the parsed records
FinishInPlace ==
    /\ pc = "collect"
    /\ AllHandedOut
    /\ results' = OrderResults(results)
    /\ translated_subtitles' = Reassemble(chunks, results')
    /\ subtitles' = translated_subtitles'
    /\ pc' = "write_translation"
    /\ UNCHANGED <<job, attempts, metadata, chunks, max_workers, futures, calls, reply,
                   yielded, output_files, error>>
    /\ UNCHANGED <<codecVars, timeVars>>

\* every future was handed out: sort, reassemble, return
Finish ==
    /\ pc = "collect"
    /\ AllHandedOut
    /\ results' = OrderResults(results)
    /\ translated_subtitles' = Reassemble(chunks, results')
    /\ pc' = "write_translation"
    /\ UNCHANGED <<job, attempts, subtitles, metadata, chunks, max_workers, futures, calls, reply,
                   yielded, output_files, error>>
    /\ UNCHANGED <<codecVars, timeVars>>

Written(artifact, w) ==
    [artifact |-> artifact, codec |-> w.codec, path |-> w.path,
     subtitles |-> w.subtitles, metadata |-> w.metadata]

WriteTranslation ==
    /\ pc = "write_translation"
    /\ output_files' = Append(output_files,
           Written("translation", write_subtitle(translated_subtitles, job.output_path, metadata)))
    /\ pc' = IF job.output_bilingual THEN "write_source" ELSE "done"
    /\ UNCHANGED <<job, attempts, subtitles, metadata, chunks, max_workers, futures, calls, reply,
                   results, yielded, translated_subtitles, error>>
    /\ UNCHANGED <<codecVars, timeVars>>

WriteSource ==
    /\ pc = "write_source"
    /\ output_files' = Append(output_files,
           Written("source", write_subtitle(subtitles, ArtifactPath(job.output_path, "_src"), metadata)))
    /\ pc' = "write_bilingual"
    /\ UNCHANGED <<job, attempts, subtitles, metadata, chunks, max_workers, futures, calls, reply,
                   results, yielded, translated_subtitles, error>>
    /\ UNCHANGED <<codecVars, timeVars>>

WriteBilingual ==
    /\ pc = "write_bilingual"
    /\ output_files' = Append(output_files,
           Written("bilingual",
                   write_subtitle(bilingual_subtitles(subtitles, translated_subtitles),
                                  ArtifactPath(job.output_path, "_bilingual"), metadata)))
    /\ pc' = "write_bilingual_reverse"
    /\ UNCHANGED <<job, attempts, subtitles, metadata, chunks, max_workers, futures, calls, reply,
                   results, yielded, translated_subtitles, error>>
    /\ UNCHANGED <<codecVars, timeVars>>

WriteBilingualReverse ==
    /\ pc = "write_bilingual_reverse"
    /\ output_files' = Append(output_files,
           Written("bilingual_reverse",
                   write_subtitle(bilingual_reverse_subtitles(subtitles, translated_subtitles),
                                  ArtifactPath(job.output_path, "_bilingual_reverse"), metadata)))
    /\ pc' = "done"
    /\ UNCHANGED <<job, attempts, subtitles, metadata, chunks, max_workers, futures, calls, reply,
                   results, yielded, translated_subtitles, error>>
    /\ UNCHANGED <<codecVars, timeVars>>

Next ==
    \/ Parse
    \/ StartTranslate
    \/ Submit
    \/ \E i \in Blocks : WorkerStart(i)
    \/ \E i \in Blocks : \E k \in 1..(Len(chunks[i + 1]) + MaxExtra) : WorkerReturn(i, k)
    \/ \E i \in Blocks : WorkerRaise(i)
    \/ \E i \in Blocks : Collect(i)
    \/ Shutdown
    \/ Finish
    \/ WriteTranslation
    \/ WriteSource
    \/ WriteBilingual
    \/ WriteBilingualReverse

Spec == Init /\ [][Next]_vars

-----------------------------------------------------------------------------
(* Properties of the translation run *)

\* translate_subtitles has returned
Returned ==
    pc \in {"write_translation", "write_source", "write_bilingual",
            "write_bilingual_reverse", "done"}

\* block position and offset in its block of the k-th caption (k from 1)
BlockOf(k) == (k - 1) \div job.chunk_size
OffsetOf(k) == (k - 1) % job.chunk_size

\* the text the k-th output record must carry, given only the input and what
\* the backend answered to each block
ExpectedText(k) ==
    LET lines == reply[BlockOf(k)].val
    IN  IF OffsetOf(k) < Len(lines) THEN Strip(lines[OffsetOf(k) + 1]) ELSE subtitles[k].text

AnyRaised == \E i \in Blocks : reply[i].tag = "Raise"

Underrun(i) == reply[i].tag = "Some" /\ Len(reply[i].val) < Len(chunks[i + 1])

Overrun(i) == reply[i].tag = "Some" /\ Len(reply[i].val) > Len(chunks[i + 1])

\* as_completed handed out a later block before an earlier one
OutOfOrder == \E a, b \in 1..Len(yielded) : a < b /\ yielded[a] > yielded[b]

\* C1: the translated sequence is determined by the captions, the chunk size and
\* the per-block backend answers alone, record k of the output belonging to
\* record k of the input, whatever the order in which the blocks completed
C1_OrderInvariant ==
    Returned =>
        /\ Len(translated_subtitles) = Len(subtitles)
        /\ \A k \in 1..Len(subtitles) :
              /\ translated_subtitles[k].index = subtitles[k].index
              /\ translated_subtitles[k].start = subtitles[k].start
              /\ translated_subtitles[k].end = subtitles[k].end
              /\ translated_subtitles[k].text = ExpectedText(k)

\* a finished run of at least three blocks whose results arrived out of order
C1_Witness ==
    /\ pc = "done"
    /\ Len(chunks) >= 3
    /\ OutOfOrder
    /\ yielded[1] = Len(chunks) - 1

\* the captions (positions in the input, from 1) a block's context is read from
PrevPositions(i) ==
    (Max((i - 1) * job.chunk_size, i * job.chunk_size - 3) + 1)..(i * job.chunk_size)
NextPositions(i) ==
    ((i + 1) * job.chunk_size + 1)..
        Min((i + 1) * job.chunk_size + 2, Min((i + 2) * job.chunk_size, Len(subtitles)))

\* the texts of the captions lo..hi of the input, in order
TextsOf(lo, hi) == [k \in 1..(hi - lo + 1) |-> subtitles[lo + k - 1].text]

NumBlocks == (Len(subtitles) + job.chunk_size - 1) \div job.chunk_size

\* C3: the backend call of block i gets as previous_content the last 3 texts of
\* block i-1 (none for i = 0) and as after_content the first 2 texts of block
\* i+1 (none for the last block); 25 captions in chunks of 10 give
\* (none, 2 lines), (3 lines, 2 lines), (3 lines, none)
C3_ContextWindow ==
    /\ \A i \in Blocks : calls[i] # None =>
          LET c == calls[i].val
              P == PrevPositions(i)
              A == NextPositions(i)
          IN  /\ c.index = i
              /\ c.previous_content =
                    IF i = 0 THEN None
                    ELSE Some(TextsOf(i * job.chunk_size - Cardinality(P) + 1, i * job.chunk_size))
              /\ c.after_content =
                    IF i = NumBlocks - 1 THEN None
                    ELSE Some(TextsOf((i + 1) * job.chunk_size + 1,
                                      (i + 1) * job.chunk_size + Cardinality(A)))
    /\ (Len(subtitles) = 25 /\ job.chunk_size = 10 /\ chunks # <<>>) =>
          /\ Len(chunks) = 3
          /\ calls[0] # None =>
                calls[0].val.previous_content = None /\ Len(calls[0].val.after_content.val) = 2
          /\ calls[1] # None =>
                Len(calls[1].val.previous_content.val) = 3 /\ Len(calls[1].val.after_content.val) = 2
          /\ calls[2] # None =>
                Len(calls[2].val.previous_content.val) = 3 /\ calls[2].val.after_content = None

\* the three backend calls of the 25-caption run have been made
C3_Witness ==
    /\ Len(subtitles) = 25
    /\ job.chunk_size = 10
    /\ chunks # <<>>
    /\ \A i \in Blocks : calls[i] # None
    /\ calls[1].val.previous_content = Some(<<CaptionText(8), CaptionText(9), CaptionText(10)>>)
    /\ calls[1].val.after_content = Some(<<CaptionText(21), CaptionText(22)>>)

\* C4: a block answered with k lines for m > k captions yields the trimmed
\* backend lines at offsets 0..k-1 and the original texts at offsets k..m-1;
\* the run goes on and the other blocks carry their own lines
C4_UnderrunKeepsOriginal ==
    /\ Returned =>
          \A i \in Blocks :
              LET k == Len(reply[i].val)
                  m == Len(chunks[i + 1])
                  base == i * job.chunk_size
              IN  /\ \A j \in 0..(Min(k, m) - 1) :
                        translated_subtitles[base + j + 1].text = Strip(reply[i].val[j + 1])
                  /\ \A j \in k..(m - 1) :
                        translated_subtitles[base + j + 1].text = subtitles[base + j + 1].text
    /\ (pc \in {"shutdown", "failed"} /\ error.type = "BackendError") => AnyRaised

\* a finished run with a block answered short by at least two lines (the first
\* translated, the rest kept) beside a block answered in full
C4_Witness ==
    /\ pc = "done"
    /\ \E i \in Blocks :
          /\ Underrun(i)
          /\ Len(chunks[i + 1]) >= Len(reply[i].val) + 2
          /\ translated_subtitles[i * job.chunk_size + 2].text = subtitles[i * job.chunk_size + 2].text
    /\ \E i \in Blocks : reply[i].tag = "Some" /\ Len(reply[i].val) = Len(chunks[i + 1])

\* C5: once the backend call of a block has raised, no output file is ever
\* written, the run cannot return, and it can only end failed with that error
C5_BackendFailureIsFatal ==
    AnyRaised =>
        /\ output_files = <<>>
        /\ ~Returned
        /\ pc = "failed" => (error.type = "BackendError" /\ reply[error.block].tag = "Raise")
        /\ (~ENABLED Next) => pc = "failed"

\* a failed run in which another block had returned and been collected first
\* and a third one finished after the failure was seen
C5_Witness ==
    /\ pc = "failed"
    /\ AnyRaised
    /\ Len(results) >= 1
    /\ \E i \in Blocks :
          futures[i].state = "returned" /\ \A q \in 1..Len(yielded) : yielded[q] # i
    /\ output_files = <<>>

\* C6: after a successful run the translated sequence is as long as the
\* original and record k keeps the index, times and styling fields of the
\* original record k, however many lines the backend answered; every artifact
\* written holds as many records as the original
C6_PositionalCorrespondence ==
    Returned =>
        /\ Len(translated_subtitles) = Len(subtitles)
        /\ \A k \in 1..Len(subtitles) :
              [translated_subtitles[k] EXCEPT !.text = <<>>] = [subtitles[k] EXCEPT !.text = <<>>]
        /\ \A f \in 1..Len(output_files) :
              Len(output_files[f].subtitles) = Len(subtitles)

\* a finished run with all four artifacts, one block answered short and
\* another with too many lines
C6_Witness ==
    /\ pc = "done"
    /\ Len(output_files) = 4
    /\ \E i \in Blocks : Underrun(i)
    /\ \E i \in Blocks : Overrun(i)
    /\ Len(subtitles) >= 3

\* C7: the bilingual record k has the text O[k] newline T[k], the reverse one
\* T[k] newline O[k], both with every other field of O[k]; the translation
\* artifact is T and the source artifact is O
C7_Composer ==
    \A f \in 1..Len(output_files) :
        LET w == output_files[f]
        IN  /\ w.artifact = "translation" => w.subtitles = translated_subtitles
            /\ w.artifact = "source" => w.subtitles = subtitles
            /\ w.artifact \in {"bilingual", "bilingual_reverse"} =>
                  /\ Len(w.subtitles) = Len(subtitles)
                  /\ \A k \in 1..Len(subtitles) :
                        /\ w.subtitles[k].text =
                              IF w.artifact = "bilingual"
                              THEN subtitles[k].text \o <<NL>> \o translated_subtitles[k].text
                              ELSE translated_subtitles[k].text \o <<NL>> \o subtitles[k].text
                        /\ [w.subtitles[k] EXCEPT !.text = <<>>] = [subtitles[k] EXCEPT !.text = <<>>]

\* a finished run of a styled track with all four artifacts written
C7_Witness ==
    /\ pc = "done"
    /\ Len(output_files) = 4
    /\ Len(subtitles) >= 2
    /\ subtitles[1].style = "Sign"
    /\ output_files[3].artifact = "bilingual"
    /\ output_files[4].artifact = "bilingual_reverse"
    /\ translated_subtitles[1].text # subtitles[1].text

\* the blocks whose translate_lines call has started and has not ended
InProgress == {i \in DOMAIN calls : calls[i] # None /\ reply[i] = None}

\* the run got as far as creating the pool
PoolCreated == pc \notin {"parse", "translate"} /\ ~(pc = "failed" /\ futures = <<>> /\ max_workers = 0)

\* C13: at every moment of a run the number of blocks whose backend call is in
\* progress is at most the worker count, which is the configured one, or 3 when
\* none is configured, however many blocks there are
C13_WorkerBound ==
    /\ Cardinality(InProgress) <= (IF job.cfg_max_workers = 0 THEN 3 ELSE job.cfg_max_workers)
    /\ PoolCreated =>
          max_workers = (IF job.cfg_max_workers = 0 THEN 3 ELSE job.cfg_max_workers)

\* no worker count is configured, three calls are in progress and a fourth block
\* waits in the queue
C13_Witness ==
    /\ job.cfg_max_workers = 0
    /\ Cardinality(InProgress) = 3
    /\ \E i \in Blocks : futures[i].state = "pending"

\* the artifacts in the order the run writes them
ArtifactOrder == <<"translation", "source", "bilingual", "bilingual_reverse">>

\* C14: no output file is written before the backend calls of all blocks have
\* ended, their results have been collected and the translated track has been
\* reassembled; the writes follow one another in the order translation,
\* source, bilingual, bilingual-reverse, four of them with output_bilingual
\* and the first alone without
C14_WritesAfterReassembly ==
    /\ output_files # <<>> =>
          /\ \A i \in Blocks : futures[i].state = "returned"
          /\ InProgress = {}
          /\ {yielded[k] : k \in 1..Len(yielded)} = Blocks
          /\ Len(results) = Len(chunks)
          /\ translated_subtitles = Reassemble(chunks, SortResults(results))
          /\ Len(translated_subtitles) = Len(subtitles)
    /\ Len(output_files) <= 4
    /\ \A k \in 1..Len(output_files) : output_files[k].artifact = ArtifactOrder[k]
    /\ Len(output_files) > 1 => job.output_bilingual
    /\ pc = "done" => Len(output_files) = (IF job.output_bilingual THEN 4 ELSE 1)
    /\ pc = "write_source" => Len(output_files) = 1
    /\ pc = "write_bilingual" => Len(output_files) = 2
    /\ pc = "write_bilingual_reverse" => Len(output_files) = 3

\* the four artifacts of a run of several blocks, the last block collected first
C14_Witness ==
    /\ Len(output_files) = 4
    /\ Len(chunks) >= 2
    /\ yielded[1] = Len(chunks) - 1
    /\ output_files[4].artifact = "bilingual_reverse"

\* the run reached the as_completed loop
Submitted ==
    \/ pc \in {"collect", "shutdown"}
    \/ Returned
    \/ pc = "failed" /\ PoolCreated

\* C15: in a run every block position 0..N-1 is submitted to the backend
\* exactly once, none skipped and none called twice, and when reassembly starts
\* the collected results hold exactly one result for each block position
C15_SubmittedOnce ==
    /\ \A i \in DOMAIN attempts : attempts[i] <= 1
    /\ Submitted => \A i \in Blocks : futures[i].state # "none"
    /\ (pc = "failed" /\ PoolCreated) => \A i \in Blocks : attempts[i] = 1
    /\ ((pc = "collect" /\ AllHandedOut) \/ Returned) =>
          /\ \A i \in Blocks : attempts[i] = 1
          /\ Len(results) = Len(chunks)
          /\ \A i \in Blocks :
                Cardinality({k \in 1..Len(results) : results[k][1] = i}) = 1

\* reassembly is about to start on three blocks collected out of order
C15_Witness ==
    /\ pc = "collect"
    /\ AllHandedOut
    /\ Len(chunks) = 3
    /\ results[1][1] = 2
    /\ \A i \in Blocks : attempts[i] = 1

\* C16: chunking, block translation, reassembly and the composition of the
\* artifacts change neither the parsed records nor the blocks nor the style
\* metadata: from the parse to the end of the run, failed or not, the track
\* and the metadata are the ones the parse returned, the blocks are the ones
\* the chunker cut, and the ASS writer of every artifact is given that metadata
C16_NoInPlaceChange ==
    (pc = "translate" \/ PoolCreated) =>
        /\ <<"ok", subtitles, metadata>> = parse_subtitle(job.input_path, job.len)
        /\ PoolCreated => chunks = split_subtitles_into_chunks(subtitles, job.chunk_size)
        /\ \A k \in 1..Len(output_files) :
              /\ output_files[k].codec = "ass" => output_files[k].metadata = metadata
              /\ output_files[k].artifact = "source" => output_files[k].subtitles = subtitles

\* an ASS run wrote its four artifacts with the parsed metadata after the
\* backend changed every text
C16_Witness ==
    /\ pc = "done"
    /\ Len(output_files) = 4
    /\ metadata # None
    /\ \A k \in 1..4 : output_files[k].codec = "ass" /\ output_files[k].metadata = metadata
    /\ Len(subtitles) >= 2
    /\ \A k \in 1..Len(subtitles) : translated_subtitles[k].text # subtitles[k].text

-----------------------------------------------------------------------------
(* The chunker on its own *)

MaxChunkerLen == 12
MaxChunkerSize == 13

InitChunker ==
    /\ pc = "chunker"
    /\ job \in {[len |-> len, chunk_size |-> n] : len \in 0..MaxChunkerLen, n \in 1..MaxChunkerSize}
    /\ subtitles = InputTrack("srt", job.len)
    /\ metadata = None
    /\ chunks = <<>>
    /\ max_workers = 0
    /\ futures = <<>>
    /\ calls = <<>>
    /\ attempts = <<>>
    /\ reply = <<>>
    /\ results = <<>>
    /\ yielded = <<>>
    /\ translated_subtitles = <<>>
    /\ output_files = <<>>
    /\ error = None
    /\ file_text = <<>>
    /\ written_text = <<>>
    /\ reparsed = <<>>
    /\ time_in = <<>>
    /\ time_mid = <<>>
    /\ time_out = <<>>

ChunkerCall ==
    /\ pc = "chunker"
    /\ chunks' = split_subtitles_into_chunks(subtitles, job.chunk_size)
    /\ pc' = "chunked"
    /\ UNCHANGED <<job, attempts, subtitles, metadata, max_workers, futures, calls, reply, results,
                   yielded, translated_subtitles, output_files, error>>
    /\ UNCHANGED <<codecVars, timeVars>>

NextChunker == ChunkerCall

SpecChunker == InitChunker /\ [][NextChunker]_vars

RECURSIVE Flatten(_)
Flatten(blocks) == IF Len(blocks) = 0 THEN <<>> ELSE blocks[1] \o Flatten(Tail(blocks))

\* C2: the blocks concatenate to the original sequence, there are ceil(L/n) of
\* them, every block but the last holds exactly n captions and the last one
\* between 1 and n
C2_ChunkerPartition ==
    pc = "chunked" =>
        LET L == Len(subtitles)
            n == job.chunk_size
        IN  /\ Flatten(chunks) = subtitles
            /\ Len(chunks) * n >= L
            /\ (Len(chunks) - 1) * n < L \/ (L = 0 /\ Len(chunks) = 0)
            /\ \A b \in 1..(Len(chunks) - 1) : Len(chunks[b]) = n
            /\ Len(chunks) > 0 => Len(chunks[Len(chunks)]) \in 1..n

\* a sequence cut into several full blocks and a shorter last one
C2_Witness ==
    /\ pc = "chunked"
    /\ Len(chunks) >= 3
    /\ Len(chunks[Len(chunks)]) < job.chunk_size
    /\ job.chunk_size >= 2

-----------------------------------------------------------------------------
(* The format dispatcher on its own: parse_subtitle, then write_subtitle, on  *)
(* one path                                                                  *)

MaxDispatchLen == 2

DispatchStems == {<<"a">>, <<"d", "/", "a">>, <<"d", ".srt", "/", "a">>, <<"a", ".srt">>}

DispatchPaths ==
    {st \o <<e>> : st \in DispatchStems, e \in ExtTokens}
        \cup DispatchStems \cup {<<".srt">>, <<"d", "/", ".ass">>}

InitDispatch ==
    /\ pc = "dispatch"
    /\ job \in {[path |-> p, len |-> len, metadata |-> m] :
                  p \in DispatchPaths, len \in 0..MaxDispatchLen, m \in {None, InputMetadata}}
    /\ subtitles = <<>>
    /\ metadata = None
    /\ chunks = <<>>
    /\ max_workers = 0
    /\ futures = <<>>
    /\ calls = <<>>
    /\ attempts = <<>>
    /\ reply = <<>>
    /\ results = <<>>
    /\ yielded = <<>>
    /\ translated_subtitles = <<>>
    /\ output_files = <<>>
    /\ error = None
    /\ file_text = <<>>
    /\ written_text = <<>>
    /\ reparsed = <<>>
    /\ time_in = <<>>
    /\ time_mid = <<>>
    /\ time_out = <<>>

\* parse_subtitle(path), the exception caught by the caller
DispatchParse ==
    /\ pc = "dispatch"
    /\ LET r == parse_subtitle(job.path, job.len)
       IN  IF r[1] = "ok"
           THEN subtitles' = r[2] /\ metadata' = r[3] /\ error' = error
           ELSE error' = r[2] /\ UNCHANGED <<subtitles, metadata>>
    /\ pc' = "parsed"
    /\ UNCHANGED <<job, attempts, chunks, max_workers, futures, calls, reply, results, yielded,
                   translated_subtitles, output_files>>
    /\ UNCHANGED <<codecVars, timeVars>>

\* write_subtitle(track, path, metadata)
DispatchWrite ==
    /\ pc = "parsed"
    /\ output_files' = Append(output_files,
           Written("track", write_subtitle(InputTrack("ass", job.len), job.path, job.metadata)))
    /\ pc' = "written"
    /\ UNCHANGED <<job, attempts, subtitles, metadata, chunks, max_workers, futures, calls, reply,
                   results, yielded, translated_subtitles, error>>
    /\ UNCHANGED <<codecVars, timeVars>>

NextDispatch == DispatchParse \/ DispatchWrite

SpecDispatch == InitDispatch /\ [][NextDispatch]_vars

\* the path's final component ends in one of the four extensions, in any case
KnownExtension(p) ==
    /\ Len(p) >= 2
    /\ p[Len(p) - 1] # "/"
    /\ p[Len(p)] \in {".srt", ".SRT", ".ass", ".ASS", ".ssa", ".vtt"}

\* C8: for a path with none of the extensions .srt .ass .ssa .vtt, reading
\* fails with an error naming the path and yields no records, while writing
\* does not fail and writes the sequence with the SRT codec
C8_UnknownFormat ==
    ~KnownExtension(job.path) =>
        /\ pc \in {"parsed", "written"} =>
              /\ error = [type |-> "ValueError", path |-> job.path]
              /\ subtitles = <<>>
              /\ metadata = None
        /\ pc = "written" =>
              /\ Len(output_files) = 1
              /\ output_files[1].codec = "srt"
              /\ output_files[1].path = job.path
              /\ output_files[1].subtitles = InputTrack("ass", job.len)

\* both calls made on a path with an unknown extension under a directory whose
\* name carries a known one
C8_Witness ==
    /\ pc = "written"
    /\ job.path = <<"d", ".srt", "/", "a", ".txt">>
    /\ job.len = 2
    /\ error.type = "ValueError"
    /\ output_files[1].codec = "srt"

-----------------------------------------------------------------------------
(* SRT codec. A file is a sequence of tokens: digits, letters, " ", "\n",   *)
(* the byte-order mark, "-->" and whole time codes ("00:00:01,000").         *)

BOM == "BOM"
Arrow == "-->"
Digits == <<"0", "1", "2", "3", "4", "5", "6", "7", "8", "9">>
DigitSet == {Digits[d] : d \in 1..10}

\* the tokens the pattern \d{2}:\d{2}:\d{2},\d{3} matches
TimeTokens == {"00:00:01,000", "00:00:02,500", "01:02:03,004"}

DigitVal(c) == (CHOOSE d \in 1..10 : Digits[d] = c) - 1

RECURSIVE DigitsVal(_)
DigitsVal(t) ==
    IF Len(t) = 0 THEN 0 ELSE 10 * DigitsVal(SubSeq(t, 1, Len(t) - 1)) + DigitVal(t[Len(t)])

AllDigits(t) == Len(t) > 0 /\ \A k \in 1..Len(t) : t[k] \in DigitSet

\* int(t) succeeds
IntOk(t) ==
    \/ AllDigits(t)
    \/ Len(t) > 1 /\ t[1] \in {"-", "+"} /\ AllDigits(Tail(t))

\* int(t)
IntVal(t) ==
    IF t[1] = "-" THEN 0 - DigitsVal(Tail(t))
    ELSE IF t[1] = "+" THEN DigitsVal(Tail(t))
    ELSE DigitsVal(t)

RECURSIVE DigitsOf(_)
\* str(n) for n >= 0
DigitsOf(n) == IF n < 10 THEN <<Digits[n + 1]>> ELSE DigitsOf(n \div 10) \o <<Digits[(n % 10) + 1]>>

RECURSIVE LStripBOM(_)
\* content.lstrip(BOM)
LStripBOM(s) == IF Len(s) > 0 /\ s[1] = BOM THEN LStripBOM(Tail(s)) ELSE s

SetMax(S) == CHOOSE x \in S : \A y \in S : y <= x
SetMin(S) == CHOOSE x \in S : \A y \in S : x <= y

\* where a match of \n\s*\n that starts at i ends (0: no match starts at i)
BlankMatchEnd(s, i) ==
    LET K == {k \in (i + 1)..Len(s) :
                 s[k] = NL /\ \A q \in (i + 1)..(k - 1) : IsSpace(s[q])}
    IN  IF s[i] = NL /\ K # {} THEN SetMax(K) ELSE 0

RECURSIVE SplitBlankLines(_)
\* re.split(r'\n\s*\n', s)
SplitBlankLines(s) ==
    LET M == {i \in 1..Len(s) : BlankMatchEnd(s, i) > 0}
    IN  IF M = {} THEN <<s>>
        ELSE <<SubSeq(s, 1, SetMin(M) - 1)>>
             \o SplitBlankLines(SubSeq(s, BlankMatchEnd(s, SetMin(M)) + 1, Len(s)))

\* the first position from i on that holds no blank (Len(t) + 1 if none)
SkipSpaces(t, i) ==
    SetMin({j \in i..(Len(t) + 1) : j = Len(t) + 1 \/ ~IsSpace(t[j])})

\* re.match of the time-range pattern on a line: <<start, end>>, or <<>>
TimeMatch(t) ==
    LET a == SkipSpaces(t, 2)
        b == SkipSpaces(t, a + 1)
    IN  IF /\ Len(t) >= 1
           /\ t[1] \in TimeTokens
           /\ a <= Len(t)
           /\ t[a] = Arrow
           /\ b <= Len(t)
           /\ t[b] \in TimeTokens
        THEN <<t[1], t[b]>>
        ELSE <<>>

\* the record parse_srt makes of one block, in a sequence; <<>> if it skips it
ParseSrtBlock(block) ==
    LET lines == Split(Strip(block), NL)
    IN  IF Len(lines) < 3 THEN <<>>
        ELSE IF ~IntOk(Strip(lines[1])) THEN <<>>
        ELSE IF TimeMatch(Strip(lines[2])) = <<>> THEN <<>>
        ELSE <<Subtitle(IntVal(Strip(lines[1])),
                        TimeMatch(Strip(lines[2]))[1], TimeMatch(Strip(lines[2]))[2],
                        Join(SubSeq(lines, 3, Len(lines)), NL),
                        "Default", "", 0, 0, 0, "")>>

RECURSIVE ParseSrtBlocks(_)
ParseSrtBlocks(blocks) ==
    IF Len(blocks) = 0 THEN <<>>
    ELSE ParseSrtBlock(blocks[1]) \o ParseSrtBlocks(Tail(blocks))

parse_srt(content) == ParseSrtBlocks(SplitBlankLines(Strip(LStripBOM(content))))

\* SrtRecordText writing the number the record carries, as write_vtt does
SrtRecordTextOwnIndex(i, sub) ==
    (IF sub.index < 0 THEN <<"-">> \o DigitsOf(0 - sub.index) ELSE DigitsOf(sub.index))
    \o <<NL>> \o <<sub.start, SP, Arrow, SP, sub.end, NL>> \o sub.text \o <<NL, NL>>

\* SrtRecordText without the blank line that ends a record
SrtRecordTextNoBlankLine(i, sub) ==
    DigitsOf(i) \o <<NL>> \o <<sub.start, SP, Arrow, SP, sub.end, NL>> \o sub.text \o <<NL>>

\* what write_srt writes for the i-th record
SrtRecordText(i, sub) ==
    DigitsOf(i) \o <<NL>> \o <<sub.start, SP, Arrow, SP, sub.end, NL>> \o sub.text \o <<NL, NL>>

RECURSIVE WriteSrtFrom(_, _)
WriteSrtFrom(subs, i) ==
    IF i > Len(subs) THEN <<>>
    ELSE SrtRecordText(i, subs[i]) \o WriteSrtFrom(subs, i + 1)

write_srt(subs) == WriteSrtFrom(subs, 1)

-----------------------------------------------------------------------------
(* parse_srt, write_srt, parse_srt on the files of a small grammar *)

MaxSrtBlocks == 2

T1 == "00:00:01,000"
T2 == "00:00:02,500"
T3 == "01:02:03,004"

\* blocks of a file: well-formed records in several layouts, and blocks the
\* parser skips
SrtBlockSamples ==
    {<<"1", NL, T1, SP, Arrow, SP, T2, NL, "a">>,
     <<"7", NL, T2, Arrow, T3, NL, "b", SP, NL, SP, "c">>,
     <<SP, "1", "2", SP, NL, SP, T1, SP, SP, Arrow, SP, T2, SP, "x", NL, SP, "a">>,
     <<"-", "5", NL, T1, SP, Arrow, SP, T3, NL, "a", SP, "b">>,
     <<"2", NL, T1, SP, Arrow, SP, T2, NL, "3", NL, T2, SP, Arrow, SP, T3, NL, "b">>,
     <<"x", NL, T1, SP, Arrow, SP, T2, NL, "a">>,
     <<"3", NL, T1, SP, Arrow, SP, T2>>,
     <<"4", NL, "0:01", SP, Arrow, SP, T2, NL, "a">>,
     <<"a">>}

SrtSeparators == {<<NL, NL>>, <<NL, SP, NL>>, <<SP, NL, NL, NL>>}

SrtLeads == {<<>>, <<BOM, NL>>}

SrtTrails == {<<>>, <<NL, SP>>}

RECURSIVE JoinBlocks(_, _)
JoinBlocks(bs, sep) ==
    IF Len(bs) = 0 THEN <<>>
    ELSE IF Len(bs) = 1 THEN bs[1]
    ELSE bs[1] \o sep \o JoinBlocks(Tail(bs), sep)

SrtFiles ==
    {lead \o JoinBlocks(bs, sep) \o trail :
        lead \in SrtLeads, trail \in SrtTrails, sep \in SrtSeparators,
        bs \in UNION {[1..n -> SrtBlockSamples] : n \in 0..MaxSrtBlocks}}

InitSrt ==
    /\ pc = "srt_parse"
    /\ file_text \in SrtFiles
    /\ job = None
    /\ subtitles = <<>>
    /\ metadata = None
    /\ chunks = <<>>
    /\ max_workers = 0
    /\ futures = <<>>
    /\ calls = <<>>
    /\ attempts = <<>>
    /\ reply = <<>>
    /\ results = <<>>
    /\ yielded = <<>>
    /\ translated_subtitles = <<>>
    /\ output_files = <<>>
    /\ error = None
    /\ written_text = <<>>
    /\ reparsed = <<>>
    /\ time_in = <<>>
    /\ time_mid = <<>>
    /\ time_out = <<>>

SrtParse ==
    /\ pc = "srt_parse"
    /\ subtitles' = parse_srt(file_text)
    /\ pc' = "srt_write"
    /\ UNCHANGED <<job, attempts, metadata, chunks, max_workers, futures, calls, reply, results,
                   yielded, translated_subtitles, output_files, error>>
    /\ UNCHANGED <<codecVars, timeVars>>

SrtWrite ==
    /\ pc = "srt_write"
    /\ written_text' = write_srt(subtitles)
    /\ pc' = "srt_reparse"
    /\ UNCHANGED <<job, attempts, subtitles, metadata, chunks, max_workers, futures, calls, reply,
                   results, yielded, translated_subtitles, output_files, error>>
    /\ UNCHANGED <<file_text, reparsed, timeVars>>

SrtReparse ==
    /\ pc = "srt_reparse"
    /\ reparsed' = parse_srt(written_text)
    /\ pc' = "srt_done"
    /\ UNCHANGED <<job, attempts, subtitles, metadata, chunks, max_workers, futures, calls, reply,
                   results, yielded, translated_subtitles, output_files, error>>
    /\ UNCHANGED <<file_text, written_text, timeVars>>

NextSrt == SrtParse \/ SrtWrite \/ SrtReparse

SpecSrt == InitSrt /\ [][NextSrt]_vars

Triple(sub) == <<sub.start, sub.end, sub.text>>

\* C9: parsing the text written from a first parse yields the same (start, end,
\* text) triples in the same order, numbered 1..N
C9_SrtRoundTrip ==
    pc = "srt_done" =>
        /\ Len(reparsed) = Len(subtitles)
        /\ \A k \in 1..Len(subtitles) :
              /\ Triple(reparsed[k]) = Triple(subtitles[k])
              /\ reparsed[k].index = k

\* a round trip of two records, none numbered by its position, the second
\* with a text of two lines
C9_Witness ==
    /\ pc = "srt_done"
    /\ Len(subtitles) = 2
    /\ subtitles[1].index = 12
    /\ subtitles[2].index = 7
    /\ subtitles[2].text = <<"b", SP, NL, SP, "c">>
    /\ Len(reparsed) = 2

-----------------------------------------------------------------------------
(* ASS and SRT time codes, one character a token *)

\* n in decimal, left-padded with zeros to at least w digits: f"{n:0wd}"
ZeroPad(n, w) ==
    LET d == DigitsOf(n)
    IN  [k \in 1..(IF Len(d) < w THEN w - Len(d) ELSE 0) |-> "0"] \o d

IsDigitAt(t, i) == i <= Len(t) /\ t[i] \in DigitSet

\* the number of digits t starts with
LeadingDigits(t) ==
    SetMax({n \in 0..Len(t) : \A k \in 1..n : t[k] \in DigitSet})

\* h:mm:ss.cc to hh:mm:ss,mmm
ass_time_to_srt(ass_time) ==
    LET n == LeadingDigits(ass_time)
    IN  IF /\ n >= 1
           /\ Len(ass_time) >= n + 9
           /\ ass_time[n + 1] = ":"
           /\ IsDigitAt(ass_time, n + 2) /\ IsDigitAt(ass_time, n + 3)
           /\ ass_time[n + 4] = ":"
           /\ IsDigitAt(ass_time, n + 5) /\ IsDigitAt(ass_time, n + 6)
           /\ ass_time[n + 7] = "."
           /\ IsDigitAt(ass_time, n + 8) /\ IsDigitAt(ass_time, n + 9)
        THEN ZeroPad(DigitsVal(SubSeq(ass_time, 1, n)), 2) \o <<":">>
             \o SubSeq(ass_time, n + 2, n + 3) \o <<":">> \o SubSeq(ass_time, n + 5, n + 6)
             \o <<",">> \o ZeroPad(DigitsVal(SubSeq(ass_time, n + 8, n + 9)) * 10, 3)
        ELSE <<"0", "0", ":", "0", "0", ":", "0", "0", ",", "0", "0", "0">>

\* the pattern (\d{2}):(\d{2}):(\d{2}),(\d{3}) matches at the start of t
SrtTimeMatches(srt_time) ==
    /\ Len(srt_time) >= 12
    /\ \A k \in {1, 2, 4, 5, 7, 8, 10, 11, 12} : srt_time[k] \in DigitSet
    /\ srt_time[3] = ":"
    /\ srt_time[6] = ":"
    /\ srt_time[9] = ","

\* _srt_time_to_ass rounding the milliseconds to the nearest centisecond
srt_time_to_ass_rounding(srt_time) ==
    IF SrtTimeMatches(srt_time)
    THEN DigitsOf(DigitsVal(SubSeq(srt_time, 1, 2))) \o <<":">>
         \o SubSeq(srt_time, 4, 5) \o <<":">> \o SubSeq(srt_time, 7, 8)
         \o <<".">> \o ZeroPad((DigitsVal(SubSeq(srt_time, 10, 12)) + 5) \div 10, 2)
    ELSE <<"0", ":", "0", "0", ":", "0", "0", ".", "0", "0">>

\* hh:mm:ss,mmm to h:mm:ss.cc
srt_time_to_ass(srt_time) ==
    IF SrtTimeMatches(srt_time)
    THEN DigitsOf(DigitsVal(SubSeq(srt_time, 1, 2))) \o <<":">>
         \o SubSeq(srt_time, 4, 5) \o <<":">> \o SubSeq(srt_time, 7, 8)
         \o <<".">> \o ZeroPad(DigitsVal(SubSeq(srt_time, 10, 12)) \div 10, 2)
    ELSE <<"0", ":", "0", "0", ":", "0", "0", ".", "0", "0">>

\* ASS times h:mm:ss.cc, every cc of 0..99
AssTimes ==
    {h \o <<":">> \o m \o <<":", "0", "7", ".">> \o ZeroPad(cc, 2) :
        h \in {<<"0">>, <<"1">>, <<"9">>, <<"1", "2">>},
        m \in {<<"0", "0">>, <<"5", "9">>},
        cc \in 0..99}

\* canonical times hh:mm:ss,mmm, every mmm of 0..999
SrtTimes ==
    {h \o <<":">> \o m \o <<":", "0", "7", ",">> \o ZeroPad(ms, 3) :
        h \in {<<"0", "0">>, <<"0", "1">>, <<"1", "2">>},
        m \in {<<"0", "0">>, <<"5", "9">>},
        ms \in 0..999}

InitTime ==
    /\ pc = "time"
    /\ \/ job = "ass" /\ time_in \in AssTimes
       \/ job = "srt" /\ time_in \in SrtTimes
    /\ subtitles = <<>>
    /\ metadata = None
    /\ chunks = <<>>
    /\ max_workers = 0
    /\ futures = <<>>
    /\ calls = <<>>
    /\ attempts = <<>>
    /\ reply = <<>>
    /\ results = <<>>
    /\ yielded = <<>>
    /\ translated_subtitles = <<>>
    /\ output_files = <<>>
    /\ error = None
    /\ file_text = <<>>
    /\ written_text = <<>>
    /\ reparsed = <<>>
    /\ time_mid = <<>>
    /\ time_out = <<>>

\* the time into the other format
TimeConvert ==
    /\ pc = "time"
    /\ time_mid' = IF job = "ass" THEN ass_time_to_srt(time_in) ELSE srt_time_to_ass(time_in)
    /\ pc' = "time_converted"
    /\ UNCHANGED <<job, attempts, subtitles, metadata, chunks, max_workers, futures, calls, reply,
                   results, yielded, translated_subtitles, output_files, error>>
    /\ UNCHANGED <<codecVars, time_in, time_out>>

\* and back
TimeRestore ==
    /\ pc = "time_converted"
    /\ time_out' = IF job = "ass" THEN srt_time_to_ass(time_mid) ELSE ass_time_to_srt(time_mid)
    /\ pc' = "time_done"
    /\ UNCHANGED <<job, attempts, subtitles, metadata, chunks, max_workers, futures, calls, reply,
                   results, yielded, translated_subtitles, output_files, error>>
    /\ UNCHANGED <<codecVars, time_in, time_mid>>

NextTime == TimeConvert \/ TimeRestore

SpecTime == InitTime /\ [][NextTime]_vars

\* the number the last n characters of t spell
LastDigits(t, n) == DigitsVal(SubSeq(t, Len(t) - n + 1, Len(t)))

\* t without its last n characters
ButLast(t, n) == SubSeq(t, 1, Len(t) - n)

\* C10: an ASS time taken to the canonical form carries ms = cc * 10 and comes
\* back with cc unchanged; a canonical time taken to ASS and back carries the
\* milliseconds truncated to a multiple of 10, never more than before and at
\* most 9 less, under the same hours, minutes and seconds
C10_TimeConversion ==
    /\ (job = "ass" /\ pc \in {"time_converted", "time_done"}) =>
          LastDigits(time_mid, 3) = LastDigits(time_in, 2) * 10
    /\ (job = "ass" /\ pc = "time_done") =>
          /\ LastDigits(time_out, 2) = LastDigits(time_in, 2)
          /\ time_out = time_in
    /\ (job = "srt" /\ pc = "time_done") =>
          /\ LastDigits(time_out, 3) <= LastDigits(time_in, 3)
          /\ LastDigits(time_in, 3) - LastDigits(time_out, 3) <= 9
          /\ LastDigits(time_out, 3) = 10 * (LastDigits(time_in, 3) \div 10)
          /\ Len(time_out) = 12
          /\ ButLast(time_out, 3) = ButLast(time_in, 3)

\* 12:59:07,999 went to ASS and came back as 12:59:07,990
C10_Witness ==
    /\ pc = "time_done"
    /\ job = "srt"
    /\ time_in = <<"1", "2", ":", "5", "9", ":", "0", "7", ",", "9", "9", "9">>
    /\ time_mid = <<"1", "2", ":", "5", "9", ":", "0", "7", ".", "9", "9">>
    /\ time_out = <<"1", "2", ":", "5", "9", ":", "0", "7", ",", "9", "9", "0">>

-----------------------------------------------------------------------------
(* The VTT codec: a file is a sequence of characters, with the words WEBVTT,
   STYLE, NOTE, REGION and the arrow as single tokens *)

\* str.upper() on the words of the sample files
Upper(t) ==
    IF t \in {"note", "Note"} THEN "NOTE"
    ELSE IF t = "style" THEN "STYLE"
    ELSE IF t = "Region" THEN "REGION"
    ELSE t

\* \d{2}:\d{2}\.\d{3} matches at position j of s
VttTimeCore(s, j) ==
    /\ j + 8 <= Len(s)
    /\ \A k \in {0, 1, 3, 4, 6, 7, 8} : s[j + k] \in DigitSet
    /\ s[j + 2] = ":"
    /\ s[j + 5] = "."

\* where a match of (\d{1,2}:)?\d{2}:\d{2}\.\d{3} that starts at i can end
VttTimeEnds(s, i) ==
    {j + 8 : j \in {j \in {i, i + 2, i + 3} :
                      /\ VttTimeCore(s, j)
                      /\ j = i + 2 => (IsDigitAt(s, i) /\ s[i + 1] = ":")
                      /\ j = i + 3 => (IsDigitAt(s, i) /\ IsDigitAt(s, i + 1) /\ s[i + 2] = ":")}}

\* re.match of the timing pattern on a stripped line
VttTimeLineMatch(t) ==
    \E e \in VttTimeEnds(t, 1) :
        LET a == SkipSpaces(t, e + 1)
        IN  /\ a <= Len(t)
            /\ t[a] = Arrow
            /\ VttTimeEnds(t, SkipSpaces(t, a + 1)) # {}

\* s.strip().split()[0]
FirstWord(s) ==
    LET t == Strip(s)
    IN  SubSeq(t, 1, SetMin({j \in 1..(Len(t) + 1) : j = Len(t) + 1 \/ IsSpace(t[j])}) - 1)

\* (hh:)mm:ss.mmm to hh:mm:ss,mmm
vtt_time_to_srt(vtt_time) ==
    LET parts == Split(vtt_time, ":")
        h == IF Len(parts) = 2 THEN <<"0", "0">> ELSE parts[1]
        m == IF Len(parts) = 2 THEN parts[1] ELSE parts[2]
        s_ms == IF Len(parts) = 2 THEN parts[2] ELSE parts[3]
    IN  ZeroPad(IntVal(h), 2) \o <<":">> \o m \o <<":">> \o Replace(s_ms, ".", ",")

RECURSIVE RemoveTags(_)
\* re.sub(r'<[^>]+>', '', s)
RemoveTags(s) ==
    LET M == {i \in 1..Len(s) :
                 /\ s[i] = "<"
                 /\ i + 1 <= Len(s)
                 /\ s[i + 1] # ">"
                 /\ \E j \in (i + 2)..Len(s) : s[j] = ">"}
    IN  IF M = {} THEN s
        ELSE LET i == SetMin(M)
                 j == SetMin({q \in (i + 2)..Len(s) : s[q] = ">"})
             IN  SubSeq(s, 1, i - 1) \o RemoveTags(SubSeq(s, j + 1, Len(s)))

\* the first line that holds an arrow, counted from 1; 0 if none does
TimeLineIdx(lines) ==
    LET I == {i \in 1..Len(lines) : \E k \in 1..Len(lines[i]) : lines[i][k] = Arrow}
    IN  IF I = {} THEN 0 ELSE SetMin(I)

\* the body of the loop of parse_vtt on one block: the record it appends when
\* index cues were accepted before, in a sequence; <<>> if it skips the block
ParseVttBlock(block, index) ==
    LET lines == Split(Strip(block), NL)
        first_line == Strip(lines[1])
        i == TimeLineIdx(lines)
        time_parts == Split(lines[i], Arrow)
    IN  IF first_line # <<>> /\ Upper(first_line[1]) \in {"STYLE", "REGION", "NOTE"} THEN <<>>
        ELSE IF i = 0 THEN <<>>
        ELSE IF ~VttTimeLineMatch(Strip(lines[i])) THEN <<>>
        ELSE <<Subtitle(index + 1,
                        vtt_time_to_srt(FirstWord(time_parts[1])),
                        vtt_time_to_srt(FirstWord(time_parts[2])),
                        RemoveTags(Join(SubSeq(lines, i + 1, Len(lines)), NL)),
                        "Default", "", 0, 0, 0, "")>>

\* counting every block, accepted or not
VttIndexAfterAnyBlock(index, block) == index + 1

\* index after the loop body ran on a block: "index += 1" follows every continue
VttIndexAfter(index, block) == index + Len(ParseVttBlock(block, index))

RECURSIVE ParseVttBlocks(_, _)
ParseVttBlocks(blocks, index) ==
    IF Len(blocks) = 0 THEN <<>>
    ELSE ParseVttBlock(blocks[1], index)
         \o ParseVttBlocks(Tail(blocks), VttIndexAfter(index, blocks[1]))

\* content.strip().startswith('WEBVTT') after the BOM is dropped
VttHeaderOk(content) ==
    LET c == Strip(LStripBOM(content)) IN Len(c) > 0 /\ c[1] = "WEBVTT"

\* parse_vtt on a file with the header: blocks[1:] of the blank-line split
parse_vtt(content) ==
    ParseVttBlocks(Tail(SplitBlankLines(Strip(LStripBOM(content)))), 0)

-----------------------------------------------------------------------------
(* parse_vtt on the files of a small grammar *)

MaxVttBlocks == 2

V1 == <<"0", "0", ":", "0", "1", ".", "0", "0", "0">>
V2 == <<"0", "0", ":", "0", "0", ":", "0", "2", ".", "5", "0", "0">>
V3 == <<"1", ":", "0", "2", ":", "0", "3", ".", "0", "0", "4">>

\* blocks of a file with what they are: cues with and without an identifier
\* line, with cue settings and tags; STYLE, REGION and NOTE blocks, one of them
\* holding a whole cue, one named by a cue identifier; blocks with no timing
\* line or a malformed one
VttBlockSamples ==
    {[kind |-> "cue", keyword |-> FALSE,
      body |-> V1 \o <<SP, Arrow, SP>> \o V2 \o <<NL, "a">>],
     [kind |-> "cue", keyword |-> FALSE,
      body |-> <<"7", NL>> \o V2 \o <<Arrow>> \o V3 \o <<SP, "x", NL, "<", "b", ">", "b", "<", "/", "b", ">", NL, "c">>],
     [kind |-> "cue", keyword |-> FALSE,
      body |-> <<"i", "d", SP, NL, SP>> \o V1 \o <<SP, SP, Arrow, SP>> \o V3 \o <<NL, SP, "a", SP>>],
     [kind |-> "cue", keyword |-> FALSE,
      body |-> V3 \o <<SP, Arrow, SP>> \o V3],
     [kind |-> "skipped", keyword |-> TRUE,
      body |-> <<"NOTE", SP, "a", NL, "b">>],
     [kind |-> "skipped", keyword |-> TRUE,
      body |-> <<"style", NL>> \o V1 \o <<SP, Arrow, SP>> \o V2 \o <<NL, "a">>],
     [kind |-> "skipped", keyword |-> TRUE,
      body |-> <<SP, "Region", "s", NL, "a">>],
     [kind |-> "skipped", keyword |-> TRUE,
      body |-> <<"note", "1", NL>> \o V2 \o <<SP, Arrow, SP>> \o V3 \o <<NL, "b">>],
     [kind |-> "skipped", keyword |-> FALSE,
      body |-> <<"a", NL, "b">>],
     [kind |-> "skipped", keyword |-> FALSE,
      body |-> <<"8", NL, "0", ":", "0", "1", SP, Arrow, SP>> \o V2 \o <<NL, "a">>],
     [kind |-> "skipped", keyword |-> FALSE,
      body |-> <<"a", SP, Arrow, NL>> \o V1 \o <<SP, Arrow, SP>> \o V2 \o <<NL, "a">>]}

\* the files: a header block (bare, with a BOM and a title, with a cue right
\* under the header line, which the parser takes for part of the header, or
\* missing), the blank lines between blocks, and the blocks
VttJobs ==
    [header : {<<"WEBVTT">>,
               <<BOM, "WEBVTT", SP, "t">>,
               <<"WEBVTT", NL>> \o V1 \o <<SP, Arrow, SP>> \o V2 \o <<NL, "a">>,
               <<"a">>},
     sep : {<<NL, NL>>, <<NL, SP, NL, NL>>},
     blocks : UNION {[1..n -> VttBlockSamples] : n \in 0..MaxVttBlocks}]

VttFile(j) ==
    JoinBlocks(<<j.header>> \o [k \in 1..Len(j.blocks) |-> j.blocks[k].body], j.sep) \o <<NL>>

InitVtt ==
    /\ pc = "vtt_parse"
    /\ job \in VttJobs
    /\ file_text = VttFile(job)
    /\ subtitles = <<>>
    /\ metadata = None
    /\ chunks = <<>>
    /\ max_workers = 0
    /\ futures = <<>>
    /\ calls = <<>>
    /\ attempts = <<>>
    /\ reply = <<>>
    /\ results = <<>>
    /\ yielded = <<>>
    /\ translated_subtitles = <<>>
    /\ output_files = <<>>
    /\ error = None
    /\ written_text = <<>>
    /\ reparsed = <<>>
    /\ time_in = <<>>
    /\ time_mid = <<>>
    /\ time_out = <<>>

\* parse_vtt: the records, or ValueError on a file without the header
VttParse ==
    /\ pc = "vtt_parse"
    /\ IF VttHeaderOk(file_text)
       THEN /\ subtitles' = parse_vtt(file_text)
            /\ pc' = "vtt_parsed"
            /\ error' = error
       ELSE /\ error' = [type |-> "ValueError", path |-> <<>>]
            /\ pc' = "vtt_failed"
            /\ subtitles' = subtitles
    /\ UNCHANGED <<job, attempts, metadata, chunks, max_workers, futures, calls, reply, results,
                   yielded, translated_subtitles, output_files>>
    /\ UNCHANGED <<codecVars, timeVars>>

NextVtt == VttParse

SpecVtt == InitVtt /\ [][NextVtt]_vars

\* the blocks of the file that are cues
VttCues == {k \in 1..Len(job.blocks) : job.blocks[k].kind = "cue"}

\* C12: parse_vtt numbers the records 1..N in parse order, N being the number of
\* accepted cue blocks, with or without an identifier line; a block whose
\* first line begins with STYLE, REGION or NOTE in any case yields no record
\* and does not advance the numbering
C12_VttIndices ==
    pc = "vtt_parsed" =>
        /\ Len(subtitles) = Cardinality(VttCues)
        /\ \A k \in 1..Len(subtitles) : subtitles[k].index = k
        /\ \A b \in 1..Len(job.blocks) :
              job.blocks[b].keyword =>
                  /\ job.blocks[b].kind = "skipped"
                  /\ parse_vtt(VttFile([job EXCEPT !.blocks = SubSeq(job.blocks, 1, b)]))
                       = parse_vtt(VttFile([job EXCEPT !.blocks = SubSeq(job.blocks, 1, b - 1)]))

\* a lower-case "note" block that holds a whole cue, then a cue with the
\* identifier line 7: one record, numbered 1
C12_Witness ==
    /\ pc = "vtt_parsed"
    /\ Len(job.blocks) = 2
    /\ job.blocks[1].body[1] = "note"
    /\ job.blocks[2].body[1] = "7"
    /\ Len(subtitles) = 1
    /\ subtitles[1].index = 1
    /\ subtitles[1].text = <<"b", NL, "c">>

-----------------------------------------------------------------------------
(* The ASS codec: a file is a sequence of characters, with the section
   headers, the words "Format:", "Dialogue:", the field names and the
   line break codes \N and \n as single tokens; a line is the sequence of
   its characters *)

RECURSIVE SplitMax(_, _, _)
\* s.split(sep, maxsplit): every separator splits when maxsplit < 0
SplitMax(s, sep, maxsplit) ==
    IF maxsplit = 0 \/ \A k \in 1..Len(s) : s[k] # sep THEN <<s>>
    ELSE LET p == SetMin({k \in 1..Len(s) : s[k] = sep})
         IN  <<SubSeq(s, 1, p - 1)>> \o SplitMax(SubSeq(s, p + 1, Len(s)), sep, maxsplit - 1)

\* dict(zip(keys, vals)).get(key, default)
DictGet(keys, vals, key, default) ==
    LET K == {k \in 1..Min(Len(keys), Len(vals)) : keys[k] = key}
    IN  IF K = {} THEN default ELSE vals[SetMax(K)]

RECURSIVE RemoveOverrides(_)
\* re.sub(r'\{[^}]*\}', '', s)
RemoveOverrides(s) ==
    LET M == {i \in 1..Len(s) : s[i] = "{" /\ \E j \in (i + 1)..Len(s) : s[j] = "}"}
    IN  IF M = {} THEN s
        ELSE LET i == SetMin(M)
                 j == SetMin({q \in (i + 1)..Len(s) : s[q] = "}"})
             IN  SubSeq(s, 1, i - 1) \o RemoveOverrides(SubSeq(s, j + 1, Len(s)))

\* the record parse_ass makes of the fields of a Dialogue line when n records
\* were made before
AssRecord(dialogue_format, parts, n) ==
    LET get(key, default) == DictGet(dialogue_format, parts, <<key>>, default)
        zero == <<"0", ":", "0", "0", ":", "0", "0", ".", "0", "0">>
        margin(key) == IF get(key, <<>>) = <<>> THEN 0 ELSE IntVal(Strip(get(key, <<>>)))
    IN  Subtitle(n + 1,
                 ass_time_to_srt(get("start", zero)),
                 ass_time_to_srt(get("end", zero)),
                 RemoveOverrides(Replace(Replace(get("text", <<>>), "\\N", NL), "\\n", NL)),
                 get("style", <<"Default">>),
                 get("name", <<>>),
                 margin("marginl"), margin("marginr"), margin("marginv"),
                 get("effect", <<>>))

\* the body of the loop of parse_ass on one line; st holds current_section,
\* dialogue_format, subtitles and the three fields of the metadata
ParseAssLine(st, raw_line) ==
    LET line == Strip(raw_line)
        brackets == {"[Script Info]", "[V4+ Styles]", "[Events]", "[Fonts]"}
        is_section == Len(line) > 0 /\ line[1] \in brackets /\ line[Len(line)] \in brackets
        section == IF Len(line) = 1 THEN Lower(line[1]) ELSE "other"
        style_sections == {"[v4 styles]", "[v4+ styles]"}
        format_parts == Split(Tail(line), ",")
        parts == SplitMax(Tail(line), ",", Len(st.dialogue_format) - 1)
    IN  IF is_section
        THEN [st EXCEPT !.current_section = section,
                        !.script_info = IF section = "[script info]" THEN Append(@, line) ELSE @,
                        !.styles = IF section \in style_sections THEN Append(@, line) ELSE @]
        ELSE IF st.current_section = "[script info]"
        THEN [st EXCEPT !.script_info = Append(@, line)]
        ELSE IF st.current_section \in style_sections
        THEN [st EXCEPT !.styles = Append(@, line)]
        ELSE IF st.current_section # "[events]" \/ Len(line) = 0 THEN st
        ELSE IF line[1] = "Format:"
        THEN [st EXCEPT !.events_header = line,
                        !.dialogue_format =
                            [k \in 1..Len(format_parts) |->
                                [q \in 1..Len(Strip(format_parts[k])) |->
                                    Lower(Strip(format_parts[k])[q])]]]
        ELSE IF line[1] = "Dialogue:" /\ Len(parts) >= Len(st.dialogue_format)
        THEN [st EXCEPT !.subtitles =
                            Append(@, AssRecord(st.dialogue_format, parts, Len(st.subtitles)))]
        ELSE st

RECURSIVE ParseAssLines(_, _)
ParseAssLines(st, lines) ==
    IF Len(lines) = 0 THEN st
    ELSE ParseAssLines(ParseAssLine(st, lines[1]), Tail(lines))

\* parse_ass: <<subtitles, metadata>>
parse_ass(content) ==
    LET st == ParseAssLines([current_section |-> "", dialogue_format |-> <<>>,
                             subtitles |-> <<>>, script_info |-> <<>>, styles |-> <<>>,
                             events_header |-> <<>>],
                            Split(LStripBOM(content), NL))
    IN  <<st.subtitles, ASSMetadata(st.script_info, st.styles, st.events_header)>>

default_ass_metadata ==
    ASSMetadata(<<<<"[Script Info]">>, <<"ScriptType: v4.00+">>, <<"PlayResX: 1920">>,
                  <<"PlayResY: 1080">>, <<"WrapStyle: 0">>>>,
                <<<<"[V4+ Styles]">>, <<"Format: Name, Fontname, ...">>,
                  <<"Style: Default,Arial,...">>>>,
                <<"Format:", SP, "Layer", ",", SP, "Start", ",", SP, "End", ",", SP, "Style",
                  ",", SP, "Name", ",", SP, "MarginL", ",", SP, "MarginR", ",", SP,
                  "MarginV", ",", SP, "Effect", ",", SP, "Text">>)

RECURSIVE WriteLines(_)
\* f.write(line + "\n") for each line
WriteLines(lines) ==
    IF Len(lines) = 0 THEN <<>> ELSE lines[1] \o <<NL>> \o WriteLines(Tail(lines))

\* write_ass: the text of the file
write_ass(subs, meta) ==
    LET md == IF meta = None THEN default_ass_metadata ELSE meta
        dialogue(sub) ==
            <<"Dialogue:", SP, "0", ",">> \o srt_time_to_ass(sub.start) \o <<",">>
            \o srt_time_to_ass(sub.end) \o <<",">> \o sub.style \o <<",">> \o sub.name
            \o <<",">> \o DigitsOf(sub.margin_l) \o <<",">> \o DigitsOf(sub.margin_r)
            \o <<",">> \o DigitsOf(sub.margin_v) \o <<",">> \o sub.effect \o <<",">>
            \o Replace(sub.text, NL, "\\N")
    IN  WriteLines(md.script_info) \o <<NL>> \o WriteLines(md.styles) \o <<NL>>
        \o <<"[Events]", NL>> \o md.events_header \o <<NL>>
        \o WriteLines([k \in 1..Len(subs) |-> dialogue(subs[k])])

-----------------------------------------------------------------------------
(* parse_ass, write_ass, parse_ass on the files of a small grammar *)

MaxAssDialogues == 2

\* the field orders of the Events Format header: the usual one, one with Style
\* moved to the front, a short one, and <<>> for a file without the header
AssFormats ==
    {<<"Layer", "Start", "End", "Style", "Name", "MarginL", "MarginR", "MarginV", "Effect", "Text">>,
     <<"Layer", "Style", "Start", "End", "Name", "MarginL", "MarginR", "MarginV", "Effect", "Text">>,
     <<"Layer", "Start", "End", "Text">>,
     <<>>}

\* the lines of the Events section of a file whose header declares fields:
\* three events laid out in that order (a text with a comma; a text with an
\* override block and a line break; a text that ends in a blank and an
\* override block), a Dialogue line with two fields only, and a Comment line
AssLineSamples(fields) ==
    LET order == IF fields = <<>>
                 THEN <<"Layer", "Start", "End", "Style", "Name", "MarginL", "MarginR",
                        "MarginV", "Effect", "Text">>
                 ELSE fields
        event(start, end, style, name, margin, effect, text) ==
            [f \in {"Layer", "Start", "End", "Style", "Name", "MarginL", "MarginR",
                    "MarginV", "Effect", "Text"} |->
                CASE f = "Layer" -> <<"0">>
                  [] f = "Start" -> start
                  [] f = "End" -> end
                  [] f = "Style" -> style
                  [] f = "Name" -> name
                  [] f = "Effect" -> effect
                  [] f = "Text" -> text
                  [] OTHER -> margin]
        line(ev) == <<"Dialogue:", SP>> \o JoinBlocks([k \in 1..Len(order) |-> ev[order[k]]], <<",">>)
        t1 == <<"0", ":", "0", "0", ":", "0", "1", ".", "0", "0">>
        t2 == <<"0", ":", "0", "0", ":", "0", "2", ".", "5", "0">>
        t3 == <<"1", ":", "0", "2", ":", "0", "3", ".", "0", "4">>
    IN  {line(event(t1, t2, <<"Default">>, <<>>, <<"0">>, <<>>, <<"a", ",", SP, "b">>)),
         line(event(t2, t3, <<"Sign">>, <<"bob">>, <<"1", "5">>, <<"fx">>,
                    <<"{", "x", "}", "a", "\\N", "b">>)),
         line(event(t1, t3, <<"Default">>, <<>>, <<"0">>, <<>>, <<"a", SP, "{", "x", "}">>)),
         <<"Dialogue:", SP, "0", ",">> \o t1,
         <<"Comment:", SP, "0", ",">> \o t1}

\* the files: a field order and the lines of the Events section
AssJobs ==
    UNION {{[format |-> f, lines |-> ls] :
               ls \in UNION {[1..n -> AssLineSamples(f)] : n \in 0..MaxAssDialogues}} :
           f \in AssFormats}

AssFile(j) ==
    WriteLines(<<<<"[Script Info]">>, <<"Title:", SP, "t">>, <<>>,
                 <<"[V4+ Styles]">>, <<"Format:", SP, "Name">>, <<"Style:", SP, "Sign">>, <<>>,
                 <<"[Events]">>>>
               \o (IF j.format = <<>> THEN <<>>
                   ELSE <<<<"Format:", SP>> \o JoinBlocks([k \in 1..Len(j.format) |-> <<j.format[k]>>],
                                                        <<",", SP>>)>>)
               \o j.lines)

InitAss ==
    /\ pc = "ass_parse"
    /\ job \in AssJobs
    /\ file_text = AssFile(job)
    /\ subtitles = <<>>
    /\ metadata = None
    /\ chunks = <<>>
    /\ max_workers = 0
    /\ futures = <<>>
    /\ calls = <<>>
    /\ attempts = <<>>
    /\ reply = <<>>
    /\ results = <<>>
    /\ yielded = <<>>
    /\ translated_subtitles = <<>>
    /\ output_files = <<>>
    /\ error = None
    /\ written_text = <<>>
    /\ reparsed = <<>>
    /\ time_in = <<>>
    /\ time_mid = <<>>
    /\ time_out = <<>>

AssParse ==
    /\ pc = "ass_parse"
    /\ subtitles' = parse_ass(file_text)[1]
    /\ metadata' = parse_ass(file_text)[2]
    /\ pc' = "ass_write"
    /\ UNCHANGED <<job, attempts, chunks, max_workers, futures, calls, reply, results,
                   yielded, translated_subtitles, output_files, error>>
    /\ UNCHANGED <<codecVars, timeVars>>

AssWrite ==
    /\ pc = "ass_write"
    /\ written_text' = write_ass(subtitles, metadata)
    /\ pc' = "ass_reparse"
    /\ UNCHANGED <<job, attempts, subtitles, metadata, chunks, max_workers, futures, calls, reply,
                   results, yielded, translated_subtitles, output_files, error>>
    /\ UNCHANGED <<file_text, reparsed, timeVars>>

AssReparse ==
    /\ pc = "ass_reparse"
    /\ reparsed' = parse_ass(written_text)[1]
    /\ pc' = "ass_done"
    /\ UNCHANGED <<job, attempts, subtitles, metadata, chunks, max_workers, futures, calls, reply,
                   results, yielded, translated_subtitles, output_files, error>>
    /\ UNCHANGED <<file_text, written_text, timeVars>>

NextAss == AssParse \/ AssWrite \/ AssReparse

SpecAss == InitAss /\ [][NextAss]_vars

\* C17: an ASS track parsed by parse_ass and written by write_ass with the
\* metadata of that parse parses again to as many records, with the same
\* start, end and text, whatever field order the Events Format header declares
C17_AssRoundTrip ==
    pc = "ass_done" =>
        /\ Len(reparsed) = Len(subtitles)
        /\ \A k \in 1..Len(subtitles) : Triple(reparsed[k]) = Triple(subtitles[k])

-----------------------------------------------------------------------------
(* The three parsers side by side *)

InitCodecs == InitSrt \/ InitVtt \/ InitAss

NextCodecs == NextSrt \/ NextVtt \/ NextAss

SpecCodecs == InitCodecs /\ [][NextCodecs]_vars

\* the records of a track are numbered 1, 2, ..., N
Sequential(track) == \A k \in 1..Len(track) : track[k].index = k

SrtParsed == pc \in {"srt_write", "srt_reparse", "srt_done"}

AssParsed == pc \in {"ass_write", "ass_reparse", "ass_done"}

\* the blocks of the SRT file read that parse_srt makes a record of
SrtAccepted ==
    SelectSeq(SplitBlankLines(Strip(LStripBOM(file_text))), LAMBDA b : ParseSrtBlock(b) # <<>>)

\* C11 as stated: in every track a codec parse produces, SRT, ASS or VTT, the
\* index values are assigned in file order starting at 1, so they are
\* 1, 2, ..., N
C11_IndicesFromOne ==
    (SrtParsed \/ AssParsed \/ pc = "vtt_parsed") => Sequential(subtitles)

\* C11 amended: a track parsed by parse_ass or parse_vtt is numbered 1, 2, ...,
\* N in file order; a track parsed by parse_srt carries, in file order, the
\* integer on the index line of each block it accepted; write_srt renumbers,
\* so the track parsed again from the written SRT file is numbered 1, 2, ..., N
C11_IndicesByCodec ==
    /\ pc = "vtt_parsed" => Sequential(subtitles)
    /\ AssParsed => Sequential(subtitles)
    /\ pc = "ass_done" => Sequential(reparsed)
    /\ SrtParsed =>
          /\ Len(subtitles) = Len(SrtAccepted)
          /\ \A k \in 1..Len(subtitles) :
                subtitles[k].index = IntVal(Strip(Split(Strip(SrtAccepted[k]), NL)[1]))
    /\ pc = "srt_done" => Sequential(reparsed)

\* an SRT file whose two records are numbered 7 and -5 was parsed, written and
\* parsed again: the first parse kept 7 and -5, the second reads 1 and 2
C11_Witness ==
    /\ pc = "srt_done"
    /\ Len(subtitles) = 2
    /\ subtitles[1].index = 7
    /\ subtitles[2].index = 0 - 5
    /\ reparsed[1].index = 1
    /\ reparsed[2].index = 2

=============================================================================
